---- MODULE Spec2Model ----
(***************************************************************************)
(* Model of src/src/main.cpp: the three RP2040 interpolator demonstrations *)
(* (times_table, blending, adc_linear_interpolation) run from loop().      *)
(*                                                                         *)
(* The interp0 registers are modelled by the signed reading of their 32    *)
(* bits.  Every value the bounded inputs below can produce stays far       *)
(* inside 32 bits, so no addition or multiplication wraps; the only place  *)
(* where the register width is visible is the blend fraction, which is the *)
(* least significant 8 bits of accum[1] (two's complement, so a negative   *)
(* coefficient c contributes c mod 256).                                   *)
(***************************************************************************)
EXTENDS Integers, Sequences, FiniteSets, TLC

VARIABLES
    demo,               \* which demonstration loop() calls (main.cpp:24-26)
    pc,                 \* position of the program
    blend,              \* lane 0 CTRL blend bit of interp0
    accum0, accum1,     \* interp0->accum[0], interp0->accum[1]
    base0, base1,       \* interp0->base[0], interp0->base[1]
    expected_lo, expected_hi,
    calibrated_lo, calibrated_hi,
    raw_val,            \* the sample last mapped (raw_val, then adc_val)
    adc_val,            \* loop variable of the repeated version
    software,           \* software / soft
    hardware,           \* hardware / hw
    hardware_corrected, \* hardware_corrected / hw_corrected
    i,                  \* loop variable of times_table and blending
    peeks,              \* number of reads of peek[0] since the set-up
    peek,               \* value last read from peek[0]
    pop                 \* value last read from pop[0]

vars == <<demo, pc, blend, accum0, accum1, base0, base1,
          expected_lo, expected_hi, calibrated_lo, calibrated_hi,
          raw_val, adc_val, software, hardware, hardware_corrected,
          i, peeks, peek, pop>>

config == <<demo, expected_lo, expected_hi, calibrated_lo, calibrated_hi>>
adcLocals == <<raw_val, adc_val, software, hardware, hardware_corrected>>
ttLocals == <<peeks, peek, pop>>

----------------------------------------------------------------------------
(* Program constants                                                       *)

FRACTION_MAX == 255
FRACTION_BITS == 8
TimesTableBase == 9
TimesTablePops == 10
BlendX0 == 500
BlendX1 == 1000
BlendSteps == 6
RefExpectedLo == 1000
RefExpectedHi == 3000
RefCalibratedLo == 900
RefCalibratedHi == 2800
RefRaw == 1500
SweepStart == 1000
SweepStep == 100

(* Bounds of the model                                                     *)

MaxPeeks == 3
MaxCalLow == 1
MaxCalWidth == 6
MaxExpWidth == 3
RawMargin == 2

----------------------------------------------------------------------------
(* Arithmetic of the C code                                                *)

Abs(x) == IF x < 0 THEN -x ELSE x

\* C integer division: the quotient is truncated toward zero (b # 0).
TruncDiv(a, b) ==
    IF (a >= 0) = (b > 0) THEN Abs(a) \div Abs(b) ELSE -(Abs(a) \div Abs(b))

\* x >> n on an int, one bit at a time (arithmetic shift).
RECURSIVE Shr(_, _)
Shr(x, n) == IF n = 0 THEN x ELSE Shr((x - (x % 2)) \div 2, n - 1)

\* What a division by zero may leave in the quotient when it does not trap.
DivZeroQuotients == {-1, 0, 1}

Quotients(a, b) == IF b = 0 THEN DivZeroQuotients ELSE {TruncDiv(a, b)}

----------------------------------------------------------------------------
(* The interpolator                                                        *)

\* Lane 0 without blending: accumulator plus base.
Lane0Result(acc, b) == acc + b

PopKeepsAccumulator(acc, result) == acc

\* A pop writes the lane result back to the accumulator.
PopWriteback(acc, result) == result

\* The fraction: the least significant 8 bits of the lane 1 value.
Alpha(acc) == acc % (FRACTION_MAX + 1)

BlendOver255(x0, x1, acc) == x0 + TruncDiv((x1 - x0) * Alpha(acc), FRACTION_MAX)

BlendShift7(x0, x1, acc) == x0 + Shr((x1 - x0) * Alpha(acc), FRACTION_BITS - 1)

BlendFromX1(x0, x1, acc) == x1 - Shr((x1 - x0) * Alpha(acc), FRACTION_BITS)

\* peek[1] in blend mode: x0 + a (x1 - x0) with a = Alpha / 256, 0 <= a < 1.
Blend(x0, x1, acc) == x0 + Shr((x1 - x0) * Alpha(acc), FRACTION_BITS)

EncodeFractionScale256(raw, lo, hi) ==
    Quotients((FRACTION_MAX + 1) * (raw - lo), hi - lo)

EncodeFractionFromHigh(raw, lo, hi) ==
    Quotients(FRACTION_MAX * (hi - raw), hi - lo)

\* 255 * (raw - calibrated_lo) / (calibrated_hi - calibrated_lo)
EncodeFraction(raw, lo, hi) == Quotients(FRACTION_MAX * (raw - lo), hi - lo)

\* expected_lo + (expected_hi - expected_lo) * (raw - lo) / (hi - lo)
SoftwareResults(raw, lo, hi, elo, ehi) ==
    {elo + q : q \in Quotients((ehi - elo) * (raw - lo), hi - lo)}

CorrectNothing(hw) == hw

CorrectSubtract(hw) == hw - Shr(hw, FRACTION_BITS)

CorrectShift7(hw) == hw + Shr(hw, FRACTION_BITS - 1)

\* hardware + (hardware >> 8)
Correct(hw) == hw + Shr(hw, FRACTION_BITS)

----------------------------------------------------------------------------
(* Inputs                                                                  *)

Demos == {"times_table", "blending", "adc_linear_interpolation"}

\* Calibrated ranges: the narrow ones (degenerate and inverted included), the
\* program's own, and one as wide as the fraction, so that every coefficient
\* 0 .. FRACTION_MAX occurs.
CalibratedRanges ==
    {<<lo, lo + w>> : lo \in 0 .. MaxCalLow, w \in -1 .. MaxCalWidth}
        \cup {<<RefCalibratedLo, RefCalibratedHi>>, <<0, FRACTION_MAX>>}

\* Expected ranges, high >= low (a lane of equal endpoints is the degenerate one).
ExpLows == {-300, 0, BlendX0, RefExpectedLo}
ExpWidths == (0 .. MaxExpWidth) \cup {BlendX1 - BlendX0, RefExpectedHi - RefExpectedLo}
ExpectedRanges == {<<lo, lo + w>> : lo \in ExpLows, w \in ExpWidths}

\* Samples offered for a calibrated range: every value of a narrow range,
\* every SweepStep-th value of a wide one, and RawMargin samples either side.
SampleStep(lo, hi) == IF hi - lo > FRACTION_MAX THEN SweepStep ELSE 1

RawSamples(lo, hi) ==
    {r \in (lo - RawMargin * SampleStep(lo, hi)) .. (hi + RawMargin * SampleStep(lo, hi)) :
        (r - lo) % SampleStep(lo, hi) = 0}

----------------------------------------------------------------------------
(* Initial state: interp0 after reset, one demonstration enabled.          *)

Init ==
    /\ demo \in Demos
    /\ pc = "loop"
    /\ blend = FALSE
    /\ accum0 = 0 /\ accum1 = 0 /\ base0 = 0 /\ base1 = 0
    /\ \E c \in (IF demo = "adc_linear_interpolation" THEN CalibratedRanges
                 ELSE {<<RefCalibratedLo, RefCalibratedHi>>}) :
          calibrated_lo = c[1] /\ calibrated_hi = c[2]
    /\ \E e \in (IF demo = "adc_linear_interpolation" THEN ExpectedRanges
                 ELSE {<<RefExpectedLo, RefExpectedHi>>}) :
          expected_lo = e[1] /\ expected_hi = e[2]
    /\ raw_val = 0 /\ adc_val = 0
    /\ software = 0 /\ hardware = 0 /\ hardware_corrected = 0
    /\ i = 0 /\ peeks = 0 /\ peek = 0 /\ pop = 0

----------------------------------------------------------------------------
(* times_table (main.cpp:29-61)                                            *)

TimesTableSetup ==
    /\ pc = "loop" /\ demo = "times_table"
    /\ pc' = "times_table"
    /\ blend' = FALSE
    /\ accum0' = 0
    /\ base0' = TimesTableBase
    /\ i' = 1
    /\ peeks' = 0 /\ peek' = 0 /\ pop' = 0
    /\ UNCHANGED <<config, accum1, base1, adcLocals>>

PeekLane0 ==
    /\ pc = "times_table" /\ peeks < MaxPeeks
    /\ peek' = Lane0Result(accum0, base0)
    /\ peeks' = peeks + 1
    /\ UNCHANGED <<config, pc, blend, accum0, accum1, base0, base1, adcLocals, i, pop>>

PopLane0 ==
    /\ pc = "times_table" /\ i <= TimesTablePops
    /\ pop' = Lane0Result(accum0, base0)
    /\ accum0' = PopWriteback(accum0, Lane0Result(accum0, base0))
    /\ i' = i + 1
    /\ UNCHANGED <<config, pc, blend, accum1, base0, base1, adcLocals, peeks, peek>>

TimesTableReturn ==
    /\ pc = "times_table" /\ i > TimesTablePops
    /\ pc' = "loop"
    /\ i' = 0 /\ peeks' = 0 /\ peek' = 0 /\ pop' = 0
    /\ UNCHANGED <<config, blend, accum0, accum1, base0, base1, adcLocals>>

----------------------------------------------------------------------------
(* blending (main.cpp:63-103)                                              *)

BlendingSetup ==
    /\ pc = "loop" /\ demo = "blending"
    /\ pc' = "blending"
    /\ blend' = TRUE
    /\ base0' = BlendX0
    /\ base1' = BlendX1
    /\ i' = 0
    /\ hardware' = 0
    /\ UNCHANGED <<config, accum0, accum1, raw_val, adc_val, software,
                   hardware_corrected, ttLocals>>

BlendingStep ==
    /\ pc = "blending" /\ i <= BlendSteps
    /\ accum1' = TruncDiv(FRACTION_MAX * i, BlendSteps)
    /\ hardware' = Blend(base0, base1, accum1')
    /\ i' = i + 1
    /\ UNCHANGED <<config, pc, blend, accum0, base0, base1, raw_val, adc_val,
                   software, hardware_corrected, ttLocals>>

BlendingReturn ==
    /\ pc = "blending" /\ i > BlendSteps
    /\ pc' = "loop"
    /\ i' = 0 /\ hardware' = 0
    /\ UNCHANGED <<config, blend, accum0, accum1, base0, base1, raw_val, adc_val,
                   software, hardware_corrected, ttLocals>>

----------------------------------------------------------------------------
(* adc_linear_interpolation (main.cpp:105-177)                             *)

AdcSetup ==
    /\ pc = "loop" /\ demo = "adc_linear_interpolation"
    /\ pc' = "adc"
    /\ blend' = TRUE
    /\ base0' = expected_lo
    /\ base1' = expected_hi
    /\ UNCHANGED <<config, accum0, accum1, adcLocals, i, ttLocals>>

\* The statements that map one sample: set the fraction, compute the
\* software value, read peek[1], correct it.
MapValue(raw) ==
    /\ accum1' \in EncodeFraction(raw, calibrated_lo, calibrated_hi)
    /\ software' \in SoftwareResults(raw, calibrated_lo, calibrated_hi,
                                     expected_lo, expected_hi)
    /\ hardware' = Blend(base0, base1, accum1')
    /\ hardware_corrected' = Correct(hardware')
    /\ raw_val' = raw

AdcSingle ==
    /\ pc = "adc"
    /\ \E raw \in RawSamples(calibrated_lo, calibrated_hi) : MapValue(raw)
    /\ pc' = "sweep"
    /\ adc_val' = SweepStart
    /\ UNCHANGED <<config, blend, accum0, base0, base1, i, ttLocals>>

AdcSweepStep ==
    /\ pc = "sweep" /\ adc_val <= calibrated_hi
    /\ MapValue(adc_val)
    /\ adc_val' = adc_val + SweepStep
    /\ UNCHANGED <<config, pc, blend, accum0, base0, base1, i, ttLocals>>

\* A division by zero that traps instead of yielding a quotient.
DivideTrap ==
    /\ \/ pc = "adc"
       \/ pc = "sweep" /\ adc_val <= calibrated_hi
    /\ calibrated_hi = calibrated_lo
    /\ pc' = "fault"
    /\ UNCHANGED <<config, blend, accum0, accum1, base0, base1, adcLocals, i, ttLocals>>

AdcReturn ==
    /\ pc = "sweep" /\ adc_val > calibrated_hi
    /\ pc' = "loop"
    /\ raw_val' = 0 /\ adc_val' = 0
    /\ software' = 0 /\ hardware' = 0 /\ hardware_corrected' = 0
    /\ UNCHANGED <<config, blend, accum0, accum1, base0, base1, i, ttLocals>>

----------------------------------------------------------------------------

Next ==
    \/ TimesTableSetup
    \/ PeekLane0
    \/ PopLane0
    \/ TimesTableReturn
    \/ BlendingSetup
    \/ BlendingStep
    \/ BlendingReturn
    \/ AdcSetup
    \/ AdcSingle
    \/ AdcSweepStep
    \/ DivideTrap
    \/ AdcReturn

Spec == Init /\ [][Next]_vars

----------------------------------------------------------------------------
(* Vocabulary of the properties                                            *)

\* The state holds one mapped sample: raw_val, its coefficient in accum1,
\* and software, hardware, hardware_corrected computed from it.
Mapped == pc = "sweep"

ValidCalibrated == calibrated_hi > calibrated_lo
ValidExpected == expected_hi > expected_lo
InCalibratedRange == calibrated_lo <= raw_val /\ raw_val <= calibrated_hi

IsReference ==
    /\ calibrated_lo = RefCalibratedLo /\ calibrated_hi = RefCalibratedHi
    /\ expected_lo = RefExpectedLo /\ expected_hi = RefExpectedHi

\* map_value(raw).raw recomputed for another sample of the same ranges.
MapValueRaw(raw) ==
    {Blend(expected_lo, expected_hi, a) :
        a \in EncodeFraction(raw, calibrated_lo, calibrated_hi)}

\* A blend result is in hardware: after a mapped sample, or a blending step.
Blended == pc = "sweep" \/ (pc = "blending" /\ i > 0)

----------------------------------------------------------------------------
(* C1: the reference scenario.                                             *)

\* C1 (as stated): with calibrated = {900, 2800}, expected = {1000, 3000}
\* and raw = 1500 the coefficient is 80, the interpolated value 1627 and
\* the bias-corrected value 1633.
C1_ReferenceAsStated ==
    (Mapped /\ IsReference /\ raw_val = RefRaw)
        => (accum1 = 80 /\ hardware = 1627 /\ hardware_corrected = 1633)

\* C1 (amended): in the reference scenario the coefficient is 80, the
\* interpolated value is 1625 (1000 + 2000 * 80 / 256) and the corrected
\* value is 1631, which is also the software value.
C1_Reference ==
    (Mapped /\ IsReference /\ raw_val = RefRaw)
        => (accum1 = 80 /\ hardware = 1625 /\ hardware_corrected = 1631
            /\ software = 1631)

C1_Witness ==
    Mapped /\ IsReference /\ raw_val = RefRaw /\ adc_val = SweepStart

----------------------------------------------------------------------------
(* C2: the corrected value stays within 5 of the software value.           *)

ReferenceSweep == {RefCalibratedLo + SweepStep * k : k \in 0 .. 19}

\* C2: for the reference ranges and every raw of 900, 1000, ..., 2800 the
\* corrected value differs from the software value by at most 5.
C2_SweepTolerance ==
    (Mapped /\ IsReference /\ raw_val \in ReferenceSweep)
        => Abs(hardware_corrected - software) <= 5

C2_Witness ==
    /\ Mapped /\ IsReference /\ raw_val = 2300
    /\ software - hardware_corrected = 4
    /\ software - hardware = 13

----------------------------------------------------------------------------
(* C3: monotonicity.                                                       *)

\* C3 (as stated): for valid ranges and any two samples r1 <= r2,
\* map_value(r1).raw <= map_value(r2).raw.
C3_MonotoneAsStated ==
    (Mapped /\ ValidCalibrated /\ ValidExpected)
        => \A r1 \in RawSamples(calibrated_lo, calibrated_hi) :
              r1 <= raw_val => \A v \in MapValueRaw(r1) : v <= hardware

\* C3 (amended): for valid ranges and any two samples r1 <= r2 that both lie
\* in the calibrated range, map_value(r1).raw <= map_value(r2).raw.
C3_MonotoneInRange ==
    (Mapped /\ ValidCalibrated /\ ValidExpected /\ InCalibratedRange)
        => \A r1 \in RawSamples(calibrated_lo, calibrated_hi) :
              (calibrated_lo <= r1 /\ r1 <= raw_val)
                  => \A v \in MapValueRaw(r1) : v <= hardware

C3_Witness ==
    /\ Mapped /\ ValidCalibrated /\ ValidExpected /\ InCalibratedRange
    /\ raw_val > calibrated_lo
    /\ \E r1 \in RawSamples(calibrated_lo, calibrated_hi) :
          /\ calibrated_lo <= r1 /\ r1 < raw_val
          /\ \E v \in MapValueRaw(r1) : v < hardware

----------------------------------------------------------------------------
(* C4: the coefficient of an in-range sample.                              *)

\* C4: for a valid calibrated range and a raw inside it the coefficient is
\* in 0 .. FRACTION_MAX, is 0 at raw = low and FRACTION_MAX at raw = high.
C4_CoefficientRange ==
    (Mapped /\ ValidCalibrated /\ InCalibratedRange)
        => /\ 0 <= accum1 /\ accum1 <= FRACTION_MAX
           /\ (raw_val = calibrated_lo => accum1 = 0)
           /\ (raw_val = calibrated_hi => accum1 = FRACTION_MAX)

C4_Witness ==
    /\ Mapped /\ ValidCalibrated
    /\ raw_val = calibrated_hi /\ accum1 = FRACTION_MAX
    /\ calibrated_hi - calibrated_lo = MaxCalWidth

----------------------------------------------------------------------------
(* C5: the interpolated value at and below the endpoints.                  *)

\* C5: for endpoints high > low, interpolate(0) is exactly low; for every
\* coefficient in 0 .. FRACTION_MAX the value never exceeds high; and for
\* every coefficient below FRACTION_MAX it is strictly less than high.
C5_EndpointBounds ==
    (Blended /\ base1 > base0 /\ 0 <= accum1 /\ accum1 <= FRACTION_MAX)
        => /\ (accum1 = 0 => hardware = base0)
           /\ hardware <= base1
           /\ (accum1 < FRACTION_MAX => hardware < base1)

C5_Witness ==
    /\ Blended /\ base1 > base0
    /\ accum1 = FRACTION_MAX - 1
    /\ hardware >= base0 /\ hardware < base1
    /\ base1 - base0 = RefExpectedHi - RefExpectedLo

----------------------------------------------------------------------------
(* C6: the correction never lowers a non-negative value.                   *)

\* C6: for every result whose raw value is non-negative,
\* corrected >= raw, where corrected = raw + (raw >> 8).
C6_CorrectionAdds ==
    (Mapped /\ hardware >= 0) => hardware_corrected >= hardware

C6_Witness ==
    Mapped /\ hardware >= 2 * (FRACTION_MAX + 1) /\ hardware_corrected >= hardware + 2

----------------------------------------------------------------------------
(* C7: degenerate ranges.                                                  *)

\* C7: with a calibrated range or an expected range where high <= low the
\* computation is aborted: no coefficient and no result value is produced.
C7_DegenerateRejected ==
    (calibrated_hi <= calibrated_lo \/ expected_hi <= expected_lo) => ~Mapped

----------------------------------------------------------------------------
(* C8: the two forms of the bias correction.                               *)

\* C8 (as stated): for every non-negative interpolated value,
\* raw + (raw >> 8) equals raw + raw / 255 (truncating division).
C8_ShiftIsDivBy255 ==
    (Mapped /\ hardware >= 0)
        => hardware_corrected = hardware + TruncDiv(hardware, FRACTION_MAX)

\* C8 (amended): for every non-negative interpolated value,
\* raw + (raw >> 8) equals raw + raw / 256 (truncating division by
\* FRACTION_MAX + 1).
C8_ShiftIsDivBy256 ==
    (Mapped /\ hardware >= 0)
        => hardware_corrected = hardware + TruncDiv(hardware, FRACTION_MAX + 1)

C8_Witness ==
    /\ Mapped /\ hardware = 2046
    /\ hardware_corrected = 2053
    /\ TruncDiv(hardware, FRACTION_MAX) = 8

----------------------------------------------------------------------------
(* C9: the under-shoot of the interpolated value.                          *)

\* C9 (as stated): for valid ranges and a raw inside the calibrated range
\* the interpolated value never exceeds the software value S, and S minus
\* it is at most (expected.high - expected.low) / 255 + 1.
C9_UndershootAsStated ==
    (Mapped /\ ValidCalibrated /\ ValidExpected /\ InCalibratedRange)
        => /\ hardware <= software
           /\ software - hardware
                 <= TruncDiv(expected_hi - expected_lo, FRACTION_MAX) + 1

\* C9 (amended): for valid ranges and a raw inside the calibrated range
\* the interpolated value never exceeds the software value S, and S minus
\* it is at most (expected.high - expected.low) / 128 + 1.
C9_Undershoot ==
    (Mapped /\ ValidCalibrated /\ ValidExpected /\ InCalibratedRange)
        => /\ hardware <= software
           /\ software - hardware
                 <= TruncDiv(expected_hi - expected_lo, 128) + 1

C9_Witness ==
    /\ Mapped /\ IsReference /\ InCalibratedRange
    /\ software - hardware = 13
    /\ TruncDiv(expected_hi - expected_lo, FRACTION_MAX) + 1 = 8

----------------------------------------------------------------------------
(* C10: peek and pop of the accumulator.                                   *)

\* C10: from accumulator 0 and base 9, after k pops (i = k + 1) the
\* accumulator is 9 * k and the k-th pop returned 9 * k, however many peeks
\* were interleaved; a peek returned accumulator + base of the moment it
\* was read, a multiple of 9 no larger than the present accumulator + base.
C10_PeekPop ==
    (pc = "times_table")
        => /\ accum0 = TimesTableBase * (i - 1)
           /\ (i > 1 => pop = TimesTableBase * (i - 1))
           /\ (peeks > 0 =>
                 /\ peek \in {TimesTableBase * k : k \in 1 .. TimesTablePops + 1}
                 /\ peek <= accum0 + base0)

C10_Witness ==
    /\ pc = "times_table" /\ i = TimesTablePops + 1
    /\ pop = 90 /\ accum0 = 90
    /\ peeks = MaxPeeks /\ peek = 45

====
